---- MODULE Spec2Model ----
(***************************************************************************)
(* PicoArt API handlers (src/api): the SDXL/FLUX transfer handler, the     *)
(* refactored FLUX handler behind the route table, the SDXL Lightning test *)
(* handler, the route dispatcher and its error-handling middleware, and    *)
(* the admission gate (rateLimiter) the handlers submit upstream calls to. *)
(*                                                                         *)
(* One action is one turn of the Node event loop: the arrival of a request *)
(* or the completion of an awaited call, followed by everything the code   *)
(* does synchronously (and in promise continuations) until the next await  *)
(* of an external event.                                                   *)
(***************************************************************************)
EXTENDS Integers, Sequences, FiniteSets, TLC

\* Number of requests the process handles in one run (bound of the model).
NumReqs == 2

Reqs == 1..NumReqs

\* Concurrency limit of the admission gate (services/rateLimiter.js, default).
MaxConcurrent == 1

VARIABLES
    reqs,          \* per request: the handler invocation's position and locals
    queue,         \* rateLimiter: tasks waiting for a slot, oldest first
    activeCount,   \* rateLimiter: tasks holding a slot
    submitted,     \* history: tasks in the order addToQueue received them
    startedOrder,  \* history: tasks in the order their operation began
    settledOrder,  \* history: tasks in the order their promise settled
    nodeEnv        \* process.env.NODE_ENV

vars == <<reqs, queue, activeCount, submitted, startedOrder, settledOrder, nodeEnv>>

----------------------------------------------------------------------------
\* JavaScript values

Undef == "undefined"

\* !v for a string-or-undefined v
Falsy(v) == v \in {Undef, ""}

\* a || d for a string-or-undefined a
OrStr(a, d) == IF Falsy(a) THEN d ELSE a

\* a || d for an optional number a (<<>> is undefined, <<n>> is n)
OrNum(a, d) == IF a = <<>> \/ a = <<0>> THEN <<d>> ELSE a

\* new Error(msg)
MkError(msg) == [message |-> msg, status |-> <<>>, retry_after |-> <<>>, stack |-> "stack"]

NoErr == [message |-> Undef, status |-> <<>>, retry_after |-> <<>>, stack |-> Undef]

----------------------------------------------------------------------------
\* Inbound requests

Methods == {"POST", "OPTIONS", "GET"}

Entries == {"sdxl", "test", "index", "wrapped"}

FluxTransferPath == "/api/flux-transfer"

Paths == {FluxTransferPath, "/api/unknown"}

NoBody == [present |-> FALSE, image |-> Undef, prompt |-> Undef, useSDXL |-> Undef]

Body(i, p, u) == [present |-> TRUE, image |-> i, prompt |-> p, useSDXL |-> u]

ValidBodies == {Body("img", "p", u) : u \in {Undef, "true", "false"}}

InvalidBodies == {Body(Undef, Undef, Undef), Body("", "p", "false"), Body("img", "", Undef)}

Bodies == {NoBody} \cup InvalidBodies \cup ValidBodies

----------------------------------------------------------------------------
\* Replies of the upstream generation API to one fetch

\* model_used and cost are fields of the reply's own JSON body (absent unless the
\* upstream sends them)
Reply(st, js, d, ra) ==
    [ status |-> st, json |-> js, detail |-> d, retry_after |-> ra,
      model_used |-> Undef, cost |-> <<>> ]

NoReply == Reply(-1, FALSE, Undef, <<>>)

ReplyOK == Reply(200, TRUE, Undef, <<>>)

\* a success whose JSON body has fields named like the handler's metadata
ReplyOKWithMetadata == [ReplyOK EXCEPT !.model_used = "upstream-model", !.cost = <<99>>]

\* fetch itself rejects (no HTTP response)
ReplyNetFail == Reply(0, FALSE, Undef, <<>>)

Replies ==
    { ReplyOK, ReplyNetFail,
      Reply(429, TRUE, "slow down", <<15>>),
      Reply(429, TRUE, "", <<0>>),
      Reply(429, FALSE, Undef, <<>>),
      Reply(500, FALSE, Undef, <<>>),
      Reply(503, TRUE, "unavailable", <<>>) }

CoarseReplies == {ReplyOK, Reply(500, FALSE, Undef, <<>>)}

----------------------------------------------------------------------------
\* Responses

CorsHeaders ==
    { <<"Access-Control-Allow-Origin", "*">>,
      <<"Access-Control-Allow-Methods", "POST, OPTIONS">>,
      <<"Access-Control-Allow-Headers", "Content-Type">> }

\* a JSON body with none of the fields the handlers write
EmptyJson ==
    [ error |-> Undef, message |-> Undef, stack |-> Undef, required |-> <<>>,
      available |-> <<>>, merged |-> FALSE, model_used |-> Undef, cost |-> <<>>,
      hasBody |-> TRUE ]

\* res.end(): no body at all
NoJson == [EmptyJson EXCEPT !.hasBody = FALSE]

\* { ...response }: the fields of the upstream's JSON body
SpreadResponse(reply) ==
    [EmptyJson EXCEPT !.merged = TRUE, !.model_used = reply.model_used,
                      !.cost = reply.cost]

NoResp == [status |-> 0, headers |-> {}, body |-> NoJson]

NoPayload == [model |-> "none", num_inference_steps |-> 0, guidance |-> <<>>, guidance_scale |-> <<>>]

\* The state of a promise, and of the operation behind it
Pending == [state |-> "pending", err |-> NoErr]

Fulfilled == [state |-> "fulfilled", err |-> NoErr]

Rejected(e) == [state |-> "rejected", err |-> e]

IdleReq ==
    [ pc |-> "idle", entry |-> "none", method |-> "none", path |-> "none",
      hostOk |-> TRUE, body |-> NoBody, headers |-> {}, useSDXL |-> Undef,
      task |-> "none", payload |-> NoPayload, reply |-> NoReply,
      produced |-> Pending, result |-> Pending,
      err |-> NoErr, uncaught |-> NoErr, resp |-> NoResp, nresp |-> 0,
      caughtBy |-> "none", bodyRead |-> FALSE, waited |-> FALSE,
      subs |-> 0, calls |-> 0, collab |-> 0 ]

\* res.status(code).json(body) / res.status(code).end()
Send(req, code, body) ==
    [req EXCEPT !.resp = [status |-> code, headers |-> req.headers, body |-> body],
                !.nresp = @ + 1, !.pc = "done"]

\* CatchSend with the stack sent in every mode
CatchSend_alwaysStack(req, e) ==
    Send([req EXCEPT !.err = e, !.caughtBy = "handler"], 500,
         [EmptyJson EXCEPT !.error = e.message, !.stack = e.stack])

\* try { ... } catch (error) { res.status(500).json({error: error.message, stack}) }
CatchSend(req, e) ==
    Send([req EXCEPT !.err = e, !.caughtBy = "handler"], 500,
         [EmptyJson EXCEPT !.error = e.message,
                           !.stack = IF nodeEnv = "development" THEN e.stack ELSE Undef])

\* res.setHeader(...) x 3 at the top of each handler
SetCors(req) == [req EXCEPT !.headers = @ \cup CorsHeaders]

\* res.status(405).json({ error: 'Method not allowed' })
Send405(req) == Send(req, 405, [EmptyJson EXCEPT !.error = "Method not allowed"])

\* res.status(400).json({ error: 'Missing required fields', required: [...] })
Send400(req) ==
    Send(req, 400, [EmptyJson EXCEPT !.error = "Missing required fields",
                                     !.required = <<"image", "prompt">>])

----------------------------------------------------------------------------
\* The admission gate, rateLimiter.addToQueue (services/rateLimiter.js)

GateTasks == {"sdxl", "flux", "test"}

\* body: JSON.stringify({input: {...}}) of callSDXLAPI's task, then fetch
sdxlFetch(req) ==
    [req EXCEPT !.pc = "upstream", !.calls = @ + 1,
                !.payload = [model |-> "bytedance/sdxl-lightning-4step",
                             num_inference_steps |-> 4,
                             guidance |-> <<>>, guidance_scale |-> <<0>>]]

\* body of callFluxAPI's task, then fetch
fluxFetch(req) ==
    [req EXCEPT !.pc = "upstream", !.calls = @ + 1,
                !.payload = [model |-> "black-forest-labs/flux-depth-dev",
                             num_inference_steps |-> 24,
                             guidance |-> <<12>>, guidance_scale |-> <<>>]]

\* body of the test handler's task, then fetch
testFetch(req) ==
    [req EXCEPT !.pc = "upstream", !.calls = @ + 1,
                !.payload = [model |-> "bytedance/sdxl-lightning-4step",
                             num_inference_steps |-> 4,
                             guidance |-> <<>>, guidance_scale |-> <<0>>]]

\* The gate invokes the operation it was given: the operation runs up to its fetch.
RunTask(s, r) ==
    LET req == s.reqs[r] IN
    [s EXCEPT !.reqs[r] = CASE req.task = "sdxl" -> sdxlFetch(req)
                            [] req.task = "flux" -> fluxFetch(req)
                            [] OTHER -> testFetch(req),
              !.startedOrder = Append(@, r)]

\* While a slot is free and a task waits, the oldest waiting task begins.
processQueue(s) ==
    IF s.activeCount < MaxConcurrent /\ s.queue # <<>>
    THEN RunTask([s EXCEPT !.queue = Tail(@), !.activeCount = @ + 1], Head(s.queue))
    ELSE s

\* submit: the task is appended; it begins at once if a slot is free.
addToQueue(s, r) ==
    processQueue([s EXCEPT !.queue = Append(@, r),
                           !.submitted = Append(@, r),
                           !.reqs[r].subs = @ + 1,
                           !.reqs[r].waited = (s.activeCount >= MaxConcurrent)])

\* taskSettled releasing the slot only when the operation succeeded
taskSettled_keepSlotOnFailure(s, r, outcome) ==
    IF outcome.state = "rejected"
    THEN [s EXCEPT !.settledOrder = Append(@, r), !.reqs[r].result = outcome]
    ELSE processQueue([s EXCEPT !.activeCount = @ - 1,
                                !.settledOrder = Append(@, r),
                                !.reqs[r].result = outcome])

\* The operation of task r ended with `outcome`: the caller's promise settles with
\* exactly that outcome, the slot is released and the next waiting task begins.
taskSettled(s, r, outcome) ==
    processQueue([s EXCEPT !.activeCount = @ - 1,
                           !.settledOrder = Append(@, r),
                           !.reqs[r].result = outcome])

----------------------------------------------------------------------------
\* The upstream client adapters

Upd(s, r, req) == [s EXCEPT !.reqs[r] = req]

\* response.ok
ReplyIsOk(reply) == reply.status >= 200 /\ reply.status <= 299

\* the error raised for a 429 reply: JSON.parse(errorText), then the Error with
\* status and retry_after
RateLimitResult(reply) ==
    IF ~reply.json
    THEN Rejected(MkError("Unexpected token in JSON"))
    ELSE Rejected([ message |-> OrStr(reply.detail, "Rate limited"),
                    status |-> <<429>>,
                    retry_after |-> OrNum(reply.retry_after, 10),
                    stack |-> "stack" ])

\* callSDXLAPI's task without the `if (!response.ok)` block: any HTTP reply is
\* returned as data
sdxlTaskResult_noOkCheck(reply) ==
    IF reply.status = 0 THEN Rejected(MkError("fetch failed")) ELSE Fulfilled

\* callSDXLAPI's task from the fetch's completion on
sdxlTaskResult(reply) ==
    IF reply.status = 0 THEN Rejected(MkError("fetch failed"))
    ELSE IF ~ReplyIsOk(reply)
         THEN IF reply.status = 429
              THEN RateLimitResult(reply)
              ELSE Rejected(MkError("SDXL API error: " \o ToString(reply.status)))
         ELSE Fulfilled

\* callFluxAPI's task from the fetch's completion on
fluxTaskResult(reply) ==
    IF reply.status = 0 THEN Rejected(MkError("fetch failed"))
    ELSE IF ~ReplyIsOk(reply)
         THEN IF reply.status = 429
              THEN RateLimitResult(reply)
              ELSE Rejected(MkError("FLUX API error: " \o ToString(reply.status)))
         ELSE Fulfilled

\* the test handler's task from the fetch's completion on
testTaskResult(reply) ==
    IF reply.status = 0 THEN Rejected(MkError("fetch failed"))
    ELSE IF ~ReplyIsOk(reply)
         THEN IF reply.status = 429
              THEN RateLimitResult(reply)
              ELSE Rejected(MkError("SDXL API error: " \o ToString(reply.status)))
         ELSE Fulfilled

\* callReplicateAPI from the fetch's completion on
replicateResult(reply) ==
    IF reply.status = 0 THEN Rejected(MkError("fetch failed"))
    ELSE IF ~ReplyIsOk(reply)
         THEN Rejected(MkError("FLUX API error: " \o ToString(reply.status)))
         ELSE Fulfilled

\* callSDXLAPI with the operation invoked at the call site and its promise handed
\* to the gate: rateLimiter.addToQueue((async () => {...})())
callSDXLAPI_eager(s, r) ==
    addToQueue([s EXCEPT !.reqs[r] = sdxlFetch([@ EXCEPT !.task = "sdxl"])], r)

\* callSDXLAPI: return rateLimiter.addToQueue(async () => {...})
callSDXLAPI(s, r) ==
    addToQueue([s EXCEPT !.reqs[r].task = "sdxl", !.reqs[r].pc = "queued"], r)

\* callFluxAPI with the operation invoked at the call site
callFluxAPI_eager(s, r) ==
    addToQueue([s EXCEPT !.reqs[r] = fluxFetch([@ EXCEPT !.task = "flux"])], r)

\* callFluxAPI: return rateLimiter.addToQueue(async () => {...})
callFluxAPI(s, r) ==
    addToQueue([s EXCEPT !.reqs[r].task = "flux", !.reqs[r].pc = "queued"], r)

\* callReplicateAPI: const response = await fetch(...)
callReplicateAPI(s, r) ==
    [s EXCEPT !.reqs[r].task = "direct", !.reqs[r].pc = "upstream",
              !.reqs[r].calls = @ + 1,
              !.reqs[r].payload = [model |-> "black-forest-labs/flux-depth-dev",
                                   num_inference_steps |-> 24,
                                   guidance |-> <<12>>, guidance_scale |-> <<>>]]

----------------------------------------------------------------------------
\* handler of flux-transfer-sdxl.js (FLUX / SDXL selection)

\* handlerOnRequest with the validation written `!image && !basePrompt`
handlerOnRequest_and(s, r) ==
    LET hdr == SetCors(s.reqs[r])
        req == [hdr EXCEPT !.bodyRead = TRUE]
    IN  IF hdr.method = "OPTIONS" THEN Upd(s, r, Send(hdr, 200, NoJson))
        ELSE IF hdr.method # "POST" THEN Upd(s, r, Send405(hdr))
        ELSE IF ~req.body.present
             THEN Upd(s, r, CatchSend(req, MkError("Cannot destructure property 'image'")))
        ELSE IF Falsy(req.body.image) /\ Falsy(req.body.prompt)
             THEN Upd(s, r, Send400(req))
        ELSE Upd(s, r, [req EXCEPT
                 !.useSDXL = IF req.body.useSDXL = Undef THEN "true" ELSE req.body.useSDXL,
                 !.collab = @ + 1, !.pc = "analyze"])

\* from the request's arrival to `await analyzeImageForArtist(image)`
handlerOnRequest(s, r) ==
    LET hdr == SetCors(s.reqs[r])
        req == [hdr EXCEPT !.bodyRead = TRUE]
    IN  IF hdr.method = "OPTIONS" THEN Upd(s, r, Send(hdr, 200, NoJson))
        ELSE IF hdr.method # "POST" THEN Upd(s, r, Send405(hdr))
        ELSE IF ~req.body.present
             THEN Upd(s, r, CatchSend(req, MkError("Cannot destructure property 'image'")))
        ELSE IF Falsy(req.body.image) \/ Falsy(req.body.prompt)
             THEN Upd(s, r, Send400(req))
        ELSE Upd(s, r, [req EXCEPT
                 !.useSDXL = IF req.body.useSDXL = Undef THEN "true" ELSE req.body.useSDXL,
                 !.collab = @ + 1, !.pc = "analyze"])

\* from the analysis result to `await selectArtistWithAI(...)`
handlerOnAnalysis(s, r, ok) ==
    LET req == s.reqs[r] IN
    IF ~ok THEN Upd(s, r, CatchSend(req, MkError("image analysis failed")))
    ELSE Upd(s, r, [req EXCEPT !.collab = @ + 1, !.pc = "select"])

\* from the artist selection to the model call of step 5
handlerOnSelection(s, r, o) ==
    LET req == s.reqs[r] IN
    IF o = "selectFail" THEN Upd(s, r, CatchSend(req, MkError("artist selection failed")))
    ELSE IF o = "buildFail"
         THEN Upd(s, r, CatchSend([req EXCEPT !.collab = @ + 1],
                                   MkError("prompt building failed")))
    ELSE LET t == Upd(s, r, [req EXCEPT !.collab = @ + 1]) IN
         IF req.useSDXL = "true" THEN callSDXLAPI(t, r) ELSE callFluxAPI(t, r)

\* { ...response, selected_artist, ..., model_used: modelType,
\*   cost: useSDXL ? 0.011 : 0.04 } (costs in thousandths of a dollar)
ModelResponse(req) ==
    [SpreadResponse(req.reply) EXCEPT
        !.model_used = IF req.useSDXL = "true" THEN "SDXL Lightning" ELSE "FLUX Depth",
        !.cost = IF req.useSDXL = "true" THEN <<11>> ELSE <<40>>]

\* handlerOnModel with an automatic retry: a task rejected with status 429 is
\* submitted again
handlerOnModel_retry(s, r) ==
    LET req == s.reqs[r] IN
    IF req.result.state = "rejected" /\ req.result.err.status = <<429>> /\ req.subs < 2
    THEN callSDXLAPI(s, r)
    ELSE IF req.result.state = "rejected"
         THEN Upd(s, r, CatchSend(req, req.result.err))
         ELSE Upd(s, r, Send(req, 200, ModelResponse(req)))

\* handlerOnModel without the try/catch around the model call: a rejection leaves
\* the handler without a response
handlerOnModel_noCatch(s, r) ==
    LET req == s.reqs[r] IN
    IF req.result.state = "rejected"
    THEN Upd(s, r, [req EXCEPT !.uncaught = req.result.err, !.pc = "done"])
    ELSE Upd(s, r, Send(req, 200, ModelResponse(req)))

\* from the model call's result to the response
handlerOnModel(s, r) ==
    LET req == s.reqs[r] IN
    IF req.result.state = "rejected"
    THEN Upd(s, r, CatchSend(req, req.result.err))
    ELSE Upd(s, r, Send(req, 200, ModelResponse(req)))

----------------------------------------------------------------------------
\* handler of flux-transfer-refactored.js (the route table's /api/flux-transfer)

\* from the request's arrival to `await analyzeImageForArtist(image)`
handlerRefactoredOnRequest(s, r) ==
    LET hdr == SetCors(s.reqs[r])
        req == [hdr EXCEPT !.bodyRead = TRUE]
    IN  IF hdr.method = "OPTIONS" THEN Upd(s, r, Send(hdr, 200, NoJson))
        ELSE IF hdr.method # "POST" THEN Upd(s, r, Send405(hdr))
        ELSE IF ~req.body.present
             THEN Upd(s, r, CatchSend(req, MkError("Cannot destructure property 'image'")))
        ELSE IF Falsy(req.body.image) \/ Falsy(req.body.prompt)
             THEN Upd(s, r, Send400(req))
        ELSE Upd(s, r, [req EXCEPT !.collab = @ + 1, !.pc = "analyze"])

\* from the analysis result to `await selectArtistWithAI(...)`
handlerRefactoredOnAnalysis(s, r, ok) ==
    LET req == s.reqs[r] IN
    IF ~ok THEN Upd(s, r, CatchSend(req, MkError("image analysis failed")))
    ELSE Upd(s, r, [req EXCEPT !.collab = @ + 1, !.pc = "select"])

\* from the artist selection to `await callReplicateAPI(...)`
handlerRefactoredOnSelection(s, r, o) ==
    LET req == s.reqs[r] IN
    IF o = "selectFail" THEN Upd(s, r, CatchSend(req, MkError("artist selection failed")))
    ELSE IF o = "buildFail"
         THEN Upd(s, r, CatchSend([req EXCEPT !.collab = @ + 1],
                                   MkError("prompt building failed")))
    ELSE callReplicateAPI(Upd(s, r, [req EXCEPT !.collab = @ + 1]), r)

\* from callReplicateAPI's result to the response
\* { ...response, selected_artist, selection_method, selection_details }
handlerRefactoredOnModel(s, r) ==
    LET req == s.reqs[r] IN
    IF req.result.state = "rejected"
    THEN Upd(s, r, CatchSend(req, req.result.err))
    ELSE Upd(s, r, Send(req, 200, SpreadResponse(req.reply)))

----------------------------------------------------------------------------
\* testSDXLLightning of sdxl-lightning-test.js

\* testSDXLLightningOnRequest without the OPTIONS branch
testSDXLLightningOnRequest_noPreflight(s, r) ==
    LET hdr == SetCors(s.reqs[r])
        req == [hdr EXCEPT !.bodyRead = TRUE]
    IN  IF hdr.method # "POST" THEN Upd(s, r, Send405(hdr))
        ELSE IF ~req.body.present
             THEN Upd(s, r, CatchSend(req, MkError("Cannot destructure property 'image'")))
        ELSE IF Falsy(req.body.image) \/ Falsy(req.body.prompt)
             THEN Upd(s, r, Send400(req))
        ELSE addToQueue(Upd(s, r, [req EXCEPT !.task = "test", !.pc = "queued"]), r)

\* from the request's arrival to `await rateLimiter.addToQueue(...)`
testSDXLLightningOnRequest(s, r) ==
    LET hdr == SetCors(s.reqs[r])
        req == [hdr EXCEPT !.bodyRead = TRUE]
    IN  IF hdr.method = "OPTIONS" THEN Upd(s, r, Send(hdr, 200, NoJson))
        ELSE IF hdr.method # "POST" THEN Upd(s, r, Send405(hdr))
        ELSE IF ~req.body.present
             THEN Upd(s, r, CatchSend(req, MkError("Cannot destructure property 'image'")))
        ELSE IF Falsy(req.body.image) \/ Falsy(req.body.prompt)
             THEN Upd(s, r, Send400(req))
        ELSE addToQueue(Upd(s, r, [req EXCEPT !.task = "test", !.pc = "queued"]), r)

\* from the task's result to the response
testSDXLLightningOnModel(s, r) ==
    LET req == s.reqs[r] IN
    IF req.result.state = "rejected"
    THEN Upd(s, r, CatchSend(req, req.result.err))
    ELSE Upd(s, r, Send(req, 200,
             [SpreadResponse(req.reply) EXCEPT !.cost = <<11>>]))

----------------------------------------------------------------------------
\* api/index.js: the route dispatcher and the error-handling middleware

\* Object.keys(routes)
RouteKeys == <<"/api/flux-transfer", "/api/check-prediction", "/api/generate-education">>

\* handler(req, res): new URL(...) throws on a malformed Host header; a known path
\* goes to its route handler, any other path is answered 404
indexHandler(s, r) ==
    LET req == s.reqs[r] IN
    IF ~req.hostOk
    THEN Upd(s, r, [req EXCEPT !.uncaught = MkError("Invalid URL"), !.pc = "done"])
    ELSE IF req.path = FluxTransferPath THEN handlerRefactoredOnRequest(s, r)
    ELSE Upd(s, r, Send(req, 404,
             [EmptyJson EXCEPT !.error = "API endpoint not found",
                               !.available = RouteKeys]))

\* withErrorHandling(handler)(req, res), with the dispatcher as the wrapped handler
withErrorHandling(s, r) ==
    LET t == indexHandler(s, r)
        req == t.reqs[r]
    IN  IF req.uncaught = NoErr THEN t
        ELSE Upd(t, r, Send([req EXCEPT !.uncaught = NoErr, !.err = req.uncaught,
                                    !.caughtBy = "middleware"], 500,
                 [EmptyJson EXCEPT
                    !.error = "Internal server error",
                    !.message = IF nodeEnv = "development" THEN req.uncaught.message
                                                           ELSE Undef,
                    !.stack = IF nodeEnv = "development" THEN req.uncaught.stack
                                                         ELSE Undef]))

----------------------------------------------------------------------------
\* Actions

Cur ==
    [ reqs |-> reqs, queue |-> queue, activeCount |-> activeCount,
      submitted |-> submitted, startedOrder |-> startedOrder,
      settledOrder |-> settledOrder ]

Commit(s) ==
    /\ reqs' = s.reqs
    /\ queue' = s.queue
    /\ activeCount' = s.activeCount
    /\ submitted' = s.submitted
    /\ startedOrder' = s.startedOrder
    /\ settledOrder' = s.settledOrder
    /\ UNCHANGED nodeEnv

\* The platform invokes the entry point e with a request (method m, path p, Host
\* header well-formed or not, body b); the code runs up to its first await.
Receive(r, e, m, p, h, b) ==
    /\ reqs[r].pc = "idle"
    /\ IF r = 1 THEN TRUE ELSE reqs[r - 1].pc # "idle"
    /\ LET s == Upd(Cur, r, [IdleReq EXCEPT !.pc = "start", !.entry = e, !.method = m,
                                             !.path = p, !.hostOk = h, !.body = b])
       IN  Commit(CASE e = "sdxl" -> handlerOnRequest(s, r)
                    [] e = "test" -> testSDXLLightningOnRequest(s, r)
                    [] e = "index" -> indexHandler(s, r)
                    [] OTHER -> withErrorHandling(s, r))

\* analyzeImageForArtist settles
AnalysisReturns(r, ok) ==
    /\ reqs[r].pc = "analyze"
    /\ Commit(IF reqs[r].entry = "sdxl" THEN handlerOnAnalysis(Cur, r, ok)
                                        ELSE handlerRefactoredOnAnalysis(Cur, r, ok))

\* selectArtistWithAI settles; the prompt builders run (and may throw)
SelectionReturns(r, o) ==
    /\ reqs[r].pc = "select"
    /\ Commit(IF reqs[r].entry = "sdxl" THEN handlerOnSelection(Cur, r, o)
                                        ELSE handlerRefactoredOnSelection(Cur, r, o))

\* The result the operation of request r produces from the upstream's reply
OperationResult(req, reply) ==
    CASE req.task = "sdxl" -> sdxlTaskResult(reply)
      [] req.task = "flux" -> fluxTaskResult(reply)
      [] req.task = "test" -> testTaskResult(reply)
      [] OTHER -> replicateResult(reply)

\* The fetch of request r completes with `reply`: the operation ends, a gate task
\* settles through the gate, and the awaiting handler answers.
UpstreamReturns(r, reply) ==
    /\ reqs[r].pc = "upstream"
    /\ LET out == OperationResult(reqs[r], reply)
           s0 == Upd(Cur, r, [reqs[r] EXCEPT !.reply = reply, !.produced = out])
           s1 == IF reqs[r].task \in GateTasks
                 THEN taskSettled(s0, r, out)
                 ELSE [s0 EXCEPT !.reqs[r].result = out]
       IN  Commit(CASE reqs[r].entry = "sdxl" -> handlerOnModel(s1, r)
                    [] reqs[r].entry = "test" -> testSDXLLightningOnModel(s1, r)
                    [] OTHER -> handlerRefactoredOnModel(s1, r))

----------------------------------------------------------------------------
\* Specifications

Init ==
    /\ reqs = [r \in Reqs |-> IdleReq]
    /\ queue = <<>>
    /\ activeCount = 0
    /\ submitted = <<>>
    /\ startedOrder = <<>>
    /\ settledOrder = <<>>
    /\ nodeEnv \in {"development", "production"}

\* Requests of every shape. Inputs the code never reads on a path are not varied:
\* the path and Host header exist only behind the dispatcher, a malformed Host header
\* stops the dispatcher before anything else is read, useSDXL is read by the SDXL
\* handler alone, and a request that is not a POST carries no body (or, at the SDXL
\* handler, a complete one).
Shapes ==
    { x \in Entries \X Methods \X (Paths \cup {"none"}) \X BOOLEAN \X Bodies :
        /\ x[1] \in {"sdxl", "test"} => x[3] = "none" /\ x[4]
        /\ x[1] \in {"index", "wrapped"} => x[3] # "none"
        /\ x[2] # "POST" => x[5] = NoBody \/ (x[1] = "sdxl" /\ x[5] = Body("img", "p", Undef))
        /\ ~x[4] => x[3] = FluxTransferPath /\ x[5] = NoBody
        /\ x[3] = "/api/unknown" => x[5] = NoBody
        /\ x[1] # "sdxl" /\ x[5] \in ValidBodies => x[5].useSDXL = Undef }

\* POST requests that reach a handler, with a complete body or an empty one.
GateShapes ==
    { x \in {"sdxl", "test", "index"} \X {"POST"} \X {FluxTransferPath, "none"}
            \X {TRUE} \X (ValidBodies \cup {Body(Undef, Undef, Undef)}) :
        /\ (x[1] = "index") = (x[3] = FluxTransferPath)
        /\ x[1] # "sdxl" => x[5].useSDXL = Undef
        /\ x[1] = "sdxl" => x[5].useSDXL # "true" }

SelectionOutcomes == {"ok", "selectFail", "buildFail"}

Next ==
    \E r \in Reqs :
        \/ \E x \in Shapes : Receive(r, x[1], x[2], x[3], x[4], x[5])
        \/ \E ok \in BOOLEAN : AnalysisReturns(r, ok)
        \/ \E o \in SelectionOutcomes : SelectionReturns(r, o)
        \/ \E reply \in CoarseReplies : UpstreamReturns(r, reply)

Spec == Init /\ [][Next]_vars

GateNext ==
    \E r \in Reqs :
        \/ \E x \in GateShapes : Receive(r, x[1], x[2], x[3], x[4], x[5])
        \/ \E ok \in BOOLEAN : AnalysisReturns(r, ok)
        \/ \E o \in SelectionOutcomes : SelectionReturns(r, o)
        \/ \E reply \in Replies : UpstreamReturns(r, reply)

GateSpec == Init /\ [][GateNext]_vars

\* The traffic of the liveness specification: complete POST requests to the handlers
\* that submit to the gate, collaborators that return, and one reply of each kind
\* (success, rate limit, other failure).
LiveShapes == {x \in GateShapes : x[5] \in ValidBodies /\ x[1] # "index"}

LiveReplies ==
    { ReplyOK,
      Reply(429, TRUE, "slow down", <<15>>),
      Reply(500, FALSE, Undef, <<>>) }

LiveNext ==
    \E r \in Reqs :
        \/ \E x \in LiveShapes : Receive(r, x[1], x[2], x[3], x[4], x[5])
        \/ AnalysisReturns(r, TRUE)
        \/ SelectionReturns(r, "ok")
        \/ \E reply \in LiveReplies : UpstreamReturns(r, reply)

\* Every upstream call that has started eventually returns.
UpstreamFairness ==
    \A r \in Reqs : WF_vars(\E reply \in LiveReplies : UpstreamReturns(r, reply))

FairGateSpec == Init /\ [][LiveNext]_vars /\ UpstreamFairness

\* The traffic of variant selection: complete POST requests, with useSDXL true,
\* false and omitted, to the SDXL/FLUX handler and through the route table, and
\* upstream successes with and without fields named like the handler's metadata.
VariantShapes ==
    { x \in {"sdxl", "index"} \X {"POST"} \X {FluxTransferPath, "none"}
            \X {TRUE} \X ValidBodies :
        (x[1] = "index") = (x[3] = FluxTransferPath) }

VariantReplies == {ReplyOK, ReplyOKWithMetadata, Reply(500, FALSE, Undef, <<>>)}

VariantNext ==
    \E r \in Reqs :
        \/ \E x \in VariantShapes : Receive(r, x[1], x[2], x[3], x[4], x[5])
        \/ \E ok \in BOOLEAN : AnalysisReturns(r, ok)
        \/ \E o \in SelectionOutcomes : SelectionReturns(r, o)
        \/ \E reply \in VariantReplies : UpstreamReturns(r, reply)

VariantSpec == Init /\ [][VariantNext]_vars

----------------------------------------------------------------------------
\* Vocabulary of the properties

Range(seq) == {seq[i] : i \in DOMAIN seq}

\* r is a task of the gate whose operation has an upstream call in flight
Executing(r) == reqs[r].task \in GateTasks /\ reqs[r].pc = "upstream"

\* r was submitted to the gate and its promise has settled
Settled(r) == r \in Range(settledOrder)

\* the operation of r has begun (its fetch was issued)
Started(r) == reqs[r].calls > 0

\* the request is handled by one of the three request handlers
ReachesHandler(r) ==
    \/ reqs[r].entry \in {"sdxl", "test"}
    \/ reqs[r].entry \in {"index", "wrapped"} /\ reqs[r].hostOk
                                              /\ reqs[r].path = FluxTransferPath

----------------------------------------------------------------------------
\* C1. With the concurrency limit 1, in every reachable state at most one task
\* submitted to the gate is executing its upstream call, and every other submitted
\* task that has not settled is waiting in the queue.
C1_AtMostOneExecuting ==
    /\ Cardinality({r \in Reqs : Executing(r)}) <= 1
    /\ \A r \in Range(submitted) :
          ~Settled(r) /\ ~Executing(r) => r \in Range(queue) /\ ~Started(r)

\* C1 witness: one task executes its upstream call while another waits in the queue.
C1_Witness ==
    \E a, b \in Reqs : a # b /\ Executing(a) /\ b \in Range(queue)

\* C2. Every upstream call in flight belongs to a task the gate started, so at most
\* one upstream call of the process is in flight.
C2_AllUpstreamThroughGate ==
    /\ \A r \in Reqs : reqs[r].pc = "upstream" =>
          reqs[r].task \in GateTasks /\ r \in Range(startedOrder)
    /\ Cardinality({r \in Reqs : reqs[r].pc = "upstream"}) <= 1

C4_SubmittedTaskSettles ==
    \A r \in Reqs :
        (reqs[r].subs > 0) ~>
            (Settled(r) /\ reqs[r].result.state # "pending"
                        /\ reqs[r].pc = "done" /\ reqs[r].nresp = 1)

\* C4 witness: a task that waited behind a task that failed has settled and its
\* handler has answered.
C4_Witness ==
    /\ Len(submitted) >= 2
    /\ reqs[submitted[1]].result.state = "rejected"
    /\ reqs[submitted[2]].waited
    /\ Settled(submitted[2])
    /\ reqs[submitted[2]].pc = "done" /\ reqs[submitted[2]].nresp = 1

\* C5. A failing task neither blocks nor alters later tasks: when a task's operation
\* ends, however it ends, its slot is released; a task whose predecessors have all
\* settled has begun; and a settled task's outcome is the one its own upstream call
\* produced (fulfilled exactly when its own reply was a success).
C5_FailureIsolation ==
    /\ activeCount = Cardinality({r \in Reqs : Executing(r)})
    /\ \A j \in DOMAIN submitted :
          (\A i \in 1..(j - 1) : Settled(submitted[i])) => Started(submitted[j])
    /\ \A r \in Range(settledOrder) :
          /\ reqs[r].result.state # "pending"
          /\ reqs[r].result = reqs[r].produced
          /\ (reqs[r].result.state = "fulfilled") =
                (reqs[r].reply.status >= 200 /\ reqs[r].reply.status <= 299)

\* C5 witness: A was rejected, B waited behind it, and B was fulfilled.
C5_Witness ==
    /\ Len(submitted) >= 2
    /\ reqs[submitted[1]].result.state = "rejected"
    /\ reqs[submitted[2]].waited
    /\ reqs[submitted[2]].result.state = "fulfilled"

\* The messages of the failures before the model step
EarlyFailures ==
    {"image analysis failed", "artist selection failed", "prompt building failed"}

\* C6. No automatic retry: a request causes at most one submission to the gate and at
\* most one upstream call, also after a 429 reply; the rate-limit failure reaches the
\* handler unchanged and the task is not enqueued again; a request that fails before
\* the model step causes no submission and no upstream call.
C6_NoAutomaticRetry ==
    \A r \in Reqs :
        /\ reqs[r].subs <= 1 /\ reqs[r].calls <= 1
        /\ Cardinality({i \in DOMAIN submitted : submitted[i] = r}) = reqs[r].subs
        /\ reqs[r].reply.status = 429 =>
              /\ reqs[r].pc = "done" /\ reqs[r].calls = 1
              /\ r \notin Range(queue)
              /\ reqs[r].result.state = "rejected"
              /\ reqs[r].result = reqs[r].produced
              /\ reqs[r].err = reqs[r].produced.err
        /\ (reqs[r].resp.status = 400 \/ reqs[r].err.message \in EarlyFailures) =>
              reqs[r].subs = 0 /\ reqs[r].calls = 0 /\ r \notin Range(submitted)

\* C6 witness: the upstream answered 429 with a retry_after and the request ended
\* after one submission and one call.
C6_Witness ==
    \E r \in Reqs :
        /\ reqs[r].reply = Reply(429, TRUE, "slow down", <<15>>)
        /\ reqs[r].pc = "done" /\ reqs[r].subs = 1 /\ reqs[r].calls = 1
        /\ reqs[r].resp.status = 500

\* C7. In every handler, a 429 reply whose JSON body carries detail and retry_after
\* gives an error with status 429, that retry_after and that detail as message, and a
\* 500 response with that message; any other failure status gives a generic error
\* whose message holds the status code.
C7_RateLimitPassthrough ==
    \A r \in Reqs :
        reqs[r].reply # NoReply =>
            /\ ( /\ reqs[r].reply.status = 429 /\ reqs[r].reply.json
                 /\ reqs[r].reply.detail # Undef /\ reqs[r].reply.retry_after # <<>> ) =>
                    /\ reqs[r].err.status = <<429>>
                    /\ reqs[r].err.retry_after = reqs[r].reply.retry_after
                    /\ reqs[r].err.message = reqs[r].reply.detail
                    /\ reqs[r].resp.status = 500
                    /\ reqs[r].resp.body.error = reqs[r].reply.detail
            /\ reqs[r].reply.status \in {500, 503} =>
                    /\ reqs[r].err.message \in
                          { "SDXL API error: " \o ToString(reqs[r].reply.status),
                            "FLUX API error: " \o ToString(reqs[r].reply.status) }
                    /\ reqs[r].resp.status = 500
                    /\ reqs[r].resp.body.error = reqs[r].err.message

\* What C8 says of every request whose failure was caught: one response, status 500,
\* the error field the thrown message, a stack exactly in development.
AnsweredWithMessage(r) ==
    /\ reqs[r].nresp = 1 /\ reqs[r].pc = "done"
    /\ reqs[r].resp.status = 500
    /\ reqs[r].resp.body.error = reqs[r].err.message
    /\ reqs[r].resp.body.stack = IF nodeEnv = "development" THEN reqs[r].err.stack ELSE Undef

\* The failures of a POST request that the state shows: a missing body, a rejected
\* model call, a collaborator's failure
FailedPost(r) ==
    /\ reqs[r].pc = "done" /\ reqs[r].method = "POST" /\ ReachesHandler(r)
    /\ \/ ~reqs[r].body.present
       \/ reqs[r].result.state = "rejected"
       \/ reqs[r].err.message \in EarlyFailures

\* No failure escapes a handler or the middleware, and no request they finish has
\* zero or two responses.
NothingEscapes(r) ==
    /\ reqs[r].nresp <= 1
    /\ (ReachesHandler(r) \/ reqs[r].entry = "wrapped") =>
          /\ reqs[r].uncaught = NoErr
          /\ reqs[r].pc = "done" => reqs[r].nresp = 1

\* C8 as stated. Every failure thrown while handling a POST request is caught by the
\* handler and answered with exactly one 500 whose error field is the thrown message,
\* with a stack only in development; the same holds for the error-handling middleware.
C8_EveryFailureAnswered ==
    \A r \in Reqs :
        /\ FailedPost(r) => reqs[r].caughtBy = "handler"
        /\ reqs[r].caughtBy \in {"handler", "middleware"} => AnsweredWithMessage(r)
        /\ NothingEscapes(r)

\* C8 amended. As stated for the three handlers. The middleware also catches every
\* failure of the handler it wraps and answers exactly one 500, but its error field is
\* the fixed text 'Internal server error'; the thrown message (in the field message)
\* and the stack appear only in development.
C8_HandlerFailuresAnswered ==
    \A r \in Reqs :
        /\ FailedPost(r) => reqs[r].caughtBy = "handler"
        /\ reqs[r].caughtBy = "handler" =>
              AnsweredWithMessage(r) /\ reqs[r].resp.body.message = Undef
        /\ reqs[r].caughtBy = "middleware" =>
              /\ reqs[r].nresp = 1 /\ reqs[r].pc = "done"
              /\ reqs[r].resp.status = 500
              /\ reqs[r].resp.body.error = "Internal server error"
              /\ reqs[r].resp.body.message =
                    IF nodeEnv = "development" THEN reqs[r].err.message ELSE Undef
              /\ reqs[r].resp.body.stack =
                    IF nodeEnv = "development" THEN reqs[r].err.stack ELSE Undef
        /\ NothingEscapes(r)

\* C8 witness: in production, the middleware has caught the dispatcher's failure and
\* a handler has caught the rejection of its gate task.
C8_Witness ==
    /\ nodeEnv = "production"
    /\ \E a, b \in Reqs :
          /\ reqs[a].caughtBy = "middleware"
          /\ reqs[b].caughtBy = "handler" /\ reqs[b].task \in GateTasks
          /\ reqs[b].result.state = "rejected"

\* A POST request that reached a handler with a body lacking image or prompt
InvalidPost(r) ==
    /\ reqs[r].pc # "idle" /\ reqs[r].method = "POST" /\ ReachesHandler(r)
    /\ reqs[r].body.present
    /\ Falsy(reqs[r].body.image) \/ Falsy(reqs[r].body.prompt)

C9_Answered400 ==
    \A r \in Reqs :
        InvalidPost(r) =>
            /\ reqs[r].pc = "done" /\ reqs[r].nresp = 1
            /\ reqs[r].resp.status = 400
            /\ reqs[r].resp.body.error = "Missing required fields"
            /\ reqs[r].resp.body.required = <<"image", "prompt">>
            /\ reqs[r].collab = 0 /\ reqs[r].subs = 0 /\ reqs[r].calls = 0
            /\ r \notin Range(submitted) /\ r \notin Range(queue)

C9_GateUntouched ==
    \A r \in Reqs :
        ~InvalidPost(r) /\ InvalidPost(r)' =>
            UNCHANGED <<queue, activeCount, submitted, startedOrder, settledOrder>>

\* C9. A POST whose body lacks image or prompt is answered 400 'Missing required
\* fields' with required = ['image','prompt']; no collaborator is invoked, nothing is
\* submitted, and the step that handles it leaves the gate's state unchanged.
C9_ValidationPrecedesWork == []C9_Answered400 /\ [][C9_GateUntouched]_vars

\* C9 witness: an invalid POST was answered 400 while another request's task held
\* the gate's slot.
C9_Witness ==
    \E a, b \in Reqs :
        /\ InvalidPost(a) /\ reqs[a].resp.status = 400
        /\ reqs[a].body.image = "" 
        /\ Executing(b) /\ activeCount = 1

\* What C10 says of a request that has been answered
MethodGated(r) ==
    /\ reqs[r].method = "OPTIONS" =>
          reqs[r].resp.status = 200 /\ ~reqs[r].resp.body.hasBody
    /\ reqs[r].method \notin {"POST", "OPTIONS"} =>
          /\ reqs[r].resp.status = 405
          /\ reqs[r].resp.body.error = "Method not allowed"
    /\ CorsHeaders \subseteq reqs[r].resp.headers

\* A request that is not a POST gets nowhere: its body is not read, no collaborator
\* is invoked, nothing is submitted and no upstream call is made.
NonPostInert(r) ==
    reqs[r].method # "POST" =>
        /\ ~reqs[r].bodyRead /\ reqs[r].collab = 0
        /\ reqs[r].subs = 0 /\ reqs[r].calls = 0
        /\ reqs[r].pc \in {"idle", "done"}

\* C10 as stated. OPTIONS is answered 200 without a body, any method other than POST
\* and OPTIONS 405, the three CORS headers are on every response, and only a POST
\* reaches the body, validation, the gate or the upstream.
C10_MethodGating ==
    \A r \in Reqs :
        /\ reqs[r].nresp >= 1 => MethodGated(r)
        /\ NonPostInert(r)

\* C10 amended. As stated for every request handled by one of the three request
\* handlers. A request the dispatcher cannot route is answered 404 whatever its
\* method, and that 404, like the middleware's 500, carries no CORS header.
C10_HandlerMethodGating ==
    \A r \in Reqs :
        /\ reqs[r].nresp >= 1 /\ ReachesHandler(r) => MethodGated(r)
        /\ reqs[r].nresp >= 1 /\ ~ReachesHandler(r) =>
              /\ reqs[r].resp.headers = {}
              /\ reqs[r].resp.status = IF reqs[r].hostOk THEN 404 ELSE 500
        /\ NonPostInert(r)

\* C10 witness: an OPTIONS request was answered 200 without a body by a handler, and
\* an OPTIONS request to an unknown path was answered 404 by the dispatcher.
C10_Witness ==
    \E a, b \in Reqs :
        /\ reqs[a].method = "OPTIONS" /\ ReachesHandler(a)
        /\ reqs[a].resp.status = 200 /\ ~reqs[a].resp.body.hasBody
        /\ reqs[b].method = "OPTIONS" /\ reqs[b].path = "/api/unknown"
        /\ reqs[b].resp.status = 404

----------------------------------------------------------------------------
\* Variant selection

\* the payload of the quality variant
QualityPayload(p) == p.num_inference_steps = 24 /\ p.guidance = <<12>>

\* the payload of the fast variant
FastPayload(p) == p.num_inference_steps = 4 /\ p.guidance_scale = <<0>>

\* a complete POST request that was answered 200
AnsweredOk(r) ==
    /\ reqs[r].method = "POST"
    /\ reqs[r].body \in ValidBodies
    /\ reqs[r].resp.status = 200

\* C11. Every complete request answered 200 submitted exactly one task to the gate
\* and made one upstream call; with useSDXL false the payload is the quality one and
\* the answer says model_used 'FLUX Depth', cost 0.04; with useSDXL true or omitted the
\* payload is the fast one and the answer says model_used 'SDXL Lightning', cost
\* 0.011, whatever fields of those names the upstream's body carries.
C11_VariantSelection ==
    \A r \in Reqs :
        AnsweredOk(r) =>
            /\ reqs[r].subs = 1 /\ reqs[r].calls = 1
            /\ reqs[r].body.useSDXL = "false" =>
                   /\ QualityPayload(reqs[r].payload)
                   /\ reqs[r].resp.body.model_used = "FLUX Depth"
                   /\ reqs[r].resp.body.cost = <<40>>
            /\ reqs[r].body.useSDXL \in {"true", Undef} =>
                   /\ FastPayload(reqs[r].payload)
                   /\ reqs[r].resp.body.model_used = "SDXL Lightning"
                   /\ reqs[r].resp.body.cost = <<11>>

====
